---- MODULE Spec2Model ----
(***************************************************************************)
(* PriceX: the sliding-window rate limiter (lib/types.ts, rateLimit), the  *)
(* scrape route handler (app/api/scrape/route.ts, GET / fetchWithRetry),   *)
(* the two marketplace extractors (fetchAmazonProducts,                    *)
(* fetchFlipkartProducts), the search page's polling (app/search/page.tsx) *)
(* and the useDebounce hook (hooks/use-debounce.ts).                       *)
(*                                                                         *)
(* The specifications share the variables:                                 *)
(*   SpecRL       calls of limiter.check against a clock,                  *)
(*   Spec         the GET handler with its two source tasks,               *)
(*   SpecFair     Spec with timers and continuations scheduled fairly,     *)
(*   SpecDup      two invocations of the GET handler in flight,            *)
(*   SpecBackoff  runs of fetchWithRetry in which every attempt fails,     *)
(*   SpecExtract  the extractors applied to bounded documents,             *)
(*   SpecPage     the search page across query changes,                    *)
(*   SpecDebounce useDebounce under input changes and a fair timer queue.  *)
(* Text is a sequence of one-character strings; an attribute that may be   *)
(* undefined is a record [some, val].                                      *)
(***************************************************************************)
EXTENDS Integers, Sequences, FiniteSets, TLC

\* ------------------------------------------------------------------ bounds
MaxTime == 5
MaxCalls == 5
MaxInterval == 2
MaxLimit == 2
MaxDocLen == 7
MaxRequests == 6
MaxWindows == 1
MaxRetries == 32
MaxChanges == 3
MaxEdits == 3
MaxDelay == 2

\* ------------------------------------------------------- program constants
\* route.ts:9  interval: 60 * 1000
LimiterInterval == 60000
\* route.ts:30 limiter.check(5, "CACHE_TOKEN")
LimiterLimit == 5
\* route.ts:100, route.ts:149  if (products.length >= 5) return false
ItemCap == 5
\* route.ts:70  retries = 2
Retries == 2
\* route.ts:70  delay = 1000
Delay == 1000
\* README.md:412  RETRY_DELAY_MAX = 30 (seconds)
RetryDelayMax == 30

Tokens == {"CACHE_TOKEN", "OTHER_TOKEN"}

VARIABLES
  now,         \* Date.now()
  rlInterval,  \* rateLimit({ interval }) closure parameter
  rlLimit,     \* the fixed limit the callers pass to check
  tokens,      \* rateLimit: const tokens = new Map(); absent key = <<>>
  solo,        \* per token: the Map of a limiter that sees only that token's calls
  rlLog,       \* the calls of check so far: [token, t, ok, soloOk]
  exSite,      \* the extractor applied: "amazon" or "flipkart"
  exDoc,       \* the document handed to it
  exOut,       \* what the traversal produced: [products, seen, from]
  exDone,      \* the traversal has run
  proxyUrl,    \* process.env.PROXY_URL is set
  useProxy,    \* process.env.NODE_ENV === "production"
  pc,          \* the GET handler: "idle", "running" (awaiting allSettled), "done"
  query,       \* searchParams.get("q"): [some, val]
  task,        \* per source, the state of fetchAmazonProducts / fetchFlipkartProducts
  status,      \* the HTTP status of the response, 0 while there is none
  body,        \* the response body
  arrivals,    \* the instants, less than one limiter interval old, at which the
               \* searches carrying a query arrived
  scrape,      \* the call of scrapeProduct behind the request: [st, message, value]
  other,       \* a second invocation of GET in flight: [pc, query, task, status, body]
  bo,          \* a run of fetchWithRetry whose attempts all fail: [retries, delay, run]
  page,        \* the SearchPage component: its state, ref, timers and requests in flight
  deb          \* a component using useDebounce: its input, state and pending timer

rlVars == <<now, rlInterval, rlLimit, tokens, solo, rlLog>>
exVars == <<exSite, exDoc, exOut, exDone>>
hVars == <<proxyUrl, useProxy, pc, query, task, status, body, arrivals, scrape, other, bo>>
uiVars == <<page, deb>>
vars == <<rlVars, exVars, hVars, uiVars>>

\* ------------------------------------------------------------ rate limiter
\* tokens.get(token) || []
TokensGet_Shared(m, token) ==
  IF \E t \in DOMAIN m : m[t] # <<>>
    THEN m[CHOOSE t \in DOMAIN m : m[t] # <<>>]
    ELSE <<>>

TokensGet(m, token) == m[token]

\* tokens.set(token, validTokens)
TokensSet(m, token, v) == [m EXCEPT ![token] = v]

\* tokenCount.filter((timestamp) => timestamp > windowStart)
ValidTokens_Inclusive(tokenCount, windowStart) ==
  SelectSeq(tokenCount, LAMBDA timestamp : timestamp >= windowStart)

ValidTokens(tokenCount, windowStart) ==
  SelectSeq(tokenCount, LAMBDA timestamp : timestamp > windowStart)

\* validTokens.length >= limit
LimitReached_OffByOne(validTokens, limit) == Len(validTokens) > limit

LimitReached(validTokens, limit) == Len(validTokens) >= limit

\* check(limit, token) at instant `clock` on the Map m: the outcome and the Map after.
\* ok = FALSE is `throw new Error("Rate limit exceeded")`.
check_RecordsRejected(m, interval, limit, token, clock) ==
  LET windowStart == clock - interval
      tokenCount == TokensGet(m, token)
      validTokens == ValidTokens(tokenCount, windowStart)
  IN [ok |-> ~LimitReached(validTokens, limit),
      tokens |-> TokensSet(m, token, Append(validTokens, clock))]

check(m, interval, limit, token, clock) ==
  LET windowStart == clock - interval
      tokenCount == TokensGet(m, token)
      validTokens == ValidTokens(tokenCount, windowStart)
  IN IF LimitReached(validTokens, limit)
       THEN [ok |-> FALSE, tokens |-> m]
       ELSE [ok |-> TRUE, tokens |-> TokensSet(m, token, Append(validTokens, clock))]

\* -------------------------------------------------------------------- text
Sources == {"amazon", "flipkart"}

None == [some |-> FALSE, val |-> <<>>]
Some(v) == [some |-> TRUE, val |-> v]

\* JavaScript truthiness of a string | undefined
Truthy(o) == o.some /\ o.val # <<>>

\* `${x}` of a string | undefined
Template(o) == IF o.some THEN o.val ELSE <<"undefined">>

\* a || b on string | undefined
OrElse(a, b) == IF Truthy(a) THEN a ELSE b

Digits == {"0", "1", "2", "3", "4", "5", "6", "7", "8", "9"}

\* \s
IsSpace(c) == c = " "

\* the character class [\s,â‚¹] of cleanText, byte for byte as the source file holds
\* it: U+00E2, U+201A, U+00B9 (the rupee sign U+20B9 itself is not in the class)
CleanClass == {" ", ",", "U+00E2", "U+201A", "U+00B9"}

RECURSIVE TrimLeft(_)
TrimLeft(s) == IF s # <<>> /\ IsSpace(Head(s)) THEN TrimLeft(Tail(s)) ELSE s

RECURSIVE TrimRight(_)
TrimRight(s) ==
  IF s # <<>> /\ IsSpace(s[Len(s)]) THEN TrimRight(SubSeq(s, 1, Len(s) - 1)) ELSE s

\* String.prototype.trim
Trim(s) == TrimRight(TrimLeft(s))

\* text.replace(/[\s,â‚¹]+/g, "").trim()
cleanText(text) == Trim(SelectSeq(text, LAMBDA c : c \notin CleanClass))

\* the longest run of digits at the head of s
RECURSIVE DigitRun(_)
DigitRun(s) ==
  IF s # <<>> /\ Head(s) \in Digits THEN <<Head(s)>> \o DigitRun(Tail(s)) ELSE <<>>

\* text.match(/(\d+\.?\d*)/)?.[0] || "0"
RECURSIVE getFirstNumber(_)
getFirstNumber(text) ==
  IF text = <<>> THEN <<"0">>
  ELSE IF Head(text) \in Digits
    THEN LET whole == DigitRun(text)
             rest == SubSeq(text, Len(whole) + 1, Len(text))
         IN IF rest # <<>> /\ Head(rest) = "."
              THEN whole \o <<".">> \o DigitRun(Tail(rest))
              ELSE whole
    ELSE getFirstNumber(Tail(text))

\* text.split(sep)[0]
RECURSIVE FirstPiece(_, _)
FirstPiece(text, sep) ==
  IF text = <<>> \/ Head(text) = sep THEN <<>>
  ELSE <<Head(text)>> \o FirstPiece(Tail(text), sep)

\* s.startsWith(prefix)
StartsWith(s, prefix) ==
  Len(s) >= Len(prefix) /\ SubSeq(s, 1, Len(prefix)) = prefix

\* s || "0"
OrZero(s) == IF s = <<>> THEN <<"0">> ELSE s

\* -------------------------------------------------------------- extractors
\* A listing container is what the field locators find in it:
\*   asin    attr("data-asin")                      (amazon)
\*   title   h2 a.a-link-normal span.a-text-normal  | div.KzDlHZ
\*   title2  a.wUfGUH text                          (flipkart)
\*   price   .a-price-whole                         | div.Nx9bqj._4b5DiR
\*   image   img.s-image src                        | img.DByuf4 src
\*   rating  span.a-icon-alt                        | div.XQDdHH
\*   reviews span.a-size-base.s-underline-text      | span.Wphh3N
\*   href    h2 a.a-link-normal href                | a.CGtC98 href
\*   href2   a.wUfGUH href                          (flipkart)
\* A document is its containers: items (div[data-cy="search-result-item"] |
\* div._75nlfW) and alt (div.cPHDOP). The origin literal of a URL is one symbol.
AmazonBase == <<"https://www.amazon.in">>
FlipkartBase == <<"https://www.flipkart.com">>

\* if (products.length >= 5) return false
CapReached_OffByOne(products) == Len(products) > ItemCap

CapReached(products) == Len(products) >= ItemCap

\* route.ts:112  name && priceText && image && url.startsWith("https://www.amazon.in")
AmazonKeeps(name, priceText, image, url) ==
  name # <<>> /\ priceText # <<>> /\ Truthy(image) /\ StartsWith(url, AmazonBase)

\* route.ts:158  name && priceText && image && urlRelative
FlipkartKeeps(name, priceText, image, urlRelative) ==
  name # <<>> /\ priceText # <<>> /\ Truthy(image) /\ Truthy(urlRelative)

\* the callback of $('div[data-cy="search-result-item"]').each, past the cap test:
\* the records after element el
AmazonEach(products, el) ==
  LET asin == el.asin
      name == Trim(el.title)
      priceText == Trim(el.price)
      image == el.image
      rating == getFirstNumber(el.rating)
      reviews == OrZero(Trim(el.reviews))
      url == AmazonBase \o Template(el.href)
  IN IF ~Truthy(asin) THEN products
     ELSE IF AmazonKeeps(name, priceText, image, url)
       THEN Append(products,
              [name |-> name, price |-> cleanText(priceText), image |-> image.val,
               rating |-> rating, reviews |-> cleanText(reviews), url |-> url,
               platform |-> "amazon"])
       ELSE products

\* the callback of productContainers.each, past the cap test
FlipkartEach(products, el) ==
  LET name == IF Trim(el.title) # <<>> THEN Trim(el.title) ELSE Trim(el.title2)
      priceText == Trim(el.price)
      image == el.image
      rating == getFirstNumber(el.rating)
      reviews == OrZero(FirstPiece(el.reviews, " "))
      urlRelative == OrElse(el.href, el.href2)
  IN IF FlipkartKeeps(name, priceText, image, urlRelative)
       THEN Append(products,
              [name |-> name, price |-> cleanText(priceText), image |-> image.val,
               rating |-> rating, reviews |-> cleanText(FirstPiece(reviews, "&")),
               url |-> FlipkartBase \o urlRelative.val, platform |-> "flipkart"])
       ELSE products

\* the containers the traversal walks
Containers(site, doc) ==
  IF site = "amazon" THEN doc.items
  ELSE IF Len(doc.items) # 0 THEN doc.items ELSE doc.alt

\* .each over els from element i on. acc.products are the records, acc.seen the
\* indices of the elements whose fields were read, acc.from the index each record
\* came from.
RECURSIVE Each(_, _, _, _)
Each(site, els, i, acc) ==
  IF i > Len(els) THEN acc
  ELSE IF CapReached(acc.products) THEN acc
  ELSE LET after == IF site = "amazon" THEN AmazonEach(acc.products, els[i])
                    ELSE FlipkartEach(acc.products, els[i])
       IN Each(site, els, i + 1,
               [products |-> after,
                seen |-> Append(acc.seen, i),
                from |-> IF Len(after) > Len(acc.products)
                           THEN Append(acc.from, i) ELSE acc.from])

NoOutput_Placeholder ==
  [products |-> <<[name |-> <<>>, price |-> <<>>, image |-> <<>>, rating |-> <<"0">>,
                   reviews |-> <<"0">>, url |-> <<>>, platform |-> "amazon"]>>,
   seen |-> <<>>, from |-> <<0>>]

NoOutput == [products |-> <<>>, seen |-> <<>>, from |-> <<>>]

\* the records fetchAmazonProducts / fetchFlipkartProducts build from a document
Extract(site, doc) == Each(site, Containers(site, doc), 1, NoOutput)

\* ----- the documents the extractors are run on
ItemRating == <<"4", ".", "2", " ", "o">>
ItemReviews == <<"1", ",", "2", " ", "R">>

Item(asin, title, title2, price, image, href, href2) ==
  [asin |-> asin, title |-> title, title2 |-> title2, price |-> price, image |-> image,
   rating |-> ItemRating, reviews |-> ItemReviews, href |-> href, href2 |-> href2]

GoodItem ==
  Item(Some(<<"B">>), <<"t", "v">>, <<>>, <<"1", ",", "2">>, Some(<<"i">>),
       Some(<<"/", "p">>), None)

BadItem == Item(Some(<<"B">>), <<" ">>, <<>>, <<>>, None, None, None)

\* one container with every combination of present, blank and absent fields
AnyItem ==
  {Item(a, t, t2, p, im, h, h2) :
     a \in {None, Some(<<"B">>)},
     t \in {<<>>, <<" ">>, <<"t", "v">>},
     t2 \in {<<>>, <<"t", "v">>},
     p \in {<<>>, <<",">>, <<"1", ",", "2">>},
     im \in {None, Some(<<>>), Some(<<"i">>)},
     h \in {None, Some(<<"/", "p">>)},
     h2 \in {None, Some(<<"/", "q">>)}}

\* the texts the rating and review-count locators may find
RatingTexts == {<<>>, <<"o">>, ItemRating, <<"o", " ", "4">>, <<"4", ".">>}
ReviewTexts == {<<>>, <<" ">>, <<",">>, ItemReviews, <<"1", ",", "2">>, <<"R", " ", "7">>,
                <<" ", "7">>, <<"7", "&", "3">>}

\* a container complete but for its rating and review-count texts
RatedItem == {[GoodItem EXCEPT !.rating = r, !.reviews = v] : r \in RatingTexts, v \in ReviewTexts}

\* the detail links attr("href") may hold: relative, or absolute into a marketplace
LinkValues == {<<"/", "p">>, AmazonBase \o <<"/", "p">>, FlipkartBase \o <<"/", "p">>}

\* a complete container with each detail link
LinkedItem == {[GoodItem EXCEPT !.href = Some(h)] : h \in LinkValues}

SeqsUpTo(S, n) == UNION {[1..k -> S] : k \in 0..n}

DocInputs ==
  {[items |-> <<it>>, alt |-> <<>>] : it \in AnyItem}
    \cup {[items |-> <<>>, alt |-> <<it>>] : it \in {GoodItem, BadItem}}
    \cup {[items |-> <<it>>, alt |-> <<>>] : it \in RatedItem}
    \cup {[items |-> <<it>>, alt |-> <<>>] : it \in LinkedItem}
    \cup {[items |-> els, alt |-> <<>>] : els \in SeqsUpTo({GoodItem, BadItem}, MaxDocLen)}


\* ------------------------------------------------------------ GET handler
\* the documents a marketplace may answer with: a listing page, and a page with no
\* listing container (a block page)
ListingDoc == [items |-> <<GoodItem, BadItem, GoodItem>>, alt |-> <<>>]
BlockDoc == [items |-> <<>>, alt |-> <<>>]
Docs == {ListingDoc, BlockDoc}

\* what an attempt can fail with: a non-2xx status, or fetch rejecting
Errors == {"HTTP error! status: 503", "fetch failed"}

Queries == {None, Some(<<>>), Some(<<"t", "v">>)}

\* route.ts:35  !query
QueryMissing_NullOnly(q) == ~q.some

QueryMissing(q) == ~Truthy(q)

\* route.ts:73  USE_PROXY && PROXY_URL ? `${PROXY_URL}${encodeURIComponent(url)}` : url
Route == IF useProxy /\ proxyUrl THEN "routed" ELSE "direct"

\* route.ts:81  if (i === retries - 1) throw error
LastAttempt_OneMore(i) == i = Retries

LastAttempt(i) == i = Retries - 1

\* the error fetchWithRetry throws once attempt i has failed with `error`
ThrownError_First(errs, error) == IF errs = <<>> THEN error ELSE errs[1]

ThrownError(errs, error) == error

\* route.ts:82  delay * (i + 1)
Backoff(i) == Delay * (i + 1)

\* A source task: st its position, i the loop index of fetchWithRetry, sent the tier
\* of each attempt issued, errs the error of each failed attempt, delays the backoffs
\* waited, thrown the error fetchWithRetry threw, html the document it returned, exc
\* whether the parse and traversal threw, products what the task resolved with, rank
\* its place in the order in which the tasks of one invocation settled (0: not yet).
NoTask ==
  [st |-> "idle", i |-> 0, sent |-> <<>>, errs |-> <<>>, delays |-> <<>>,
   thrown |-> "none", html |-> <<>>, exc |-> FALSE, products |-> <<>>, rank |-> 0]

\* route.ts:39-42  the task t settles among the tasks tk handed to Promise.allSettled
Ranked(t, tk) ==
  IF t.st \in {"resolved", "rejected"}
    THEN [t EXCEPT !.rank = 1 + Cardinality({u \in DOMAIN tk : tk[u].rank > 0})]
    ELSE t

\* Without the catch, the error leaves fetchXProducts and the task rejects.
CatchResult_Rethrow == [st |-> "rejected", products |-> <<>>]

\* route.ts:132-135, 177-180  catch (error) { console.error(...); return [] }
CatchResult == [st |-> "resolved", products |-> <<>>]

\* The task t of source s after its pending attempt is answered 2xx with document d.
\* fetchWithRetry returns d; cheerio.load and the traversal run in the same turn. When
\* they throw (x), the catch of fetchXProducts answers [].
TaskOk(t, s, d, x) ==
  IF x
    THEN [t EXCEPT !.st = CatchResult.st, !.html = <<d>>, !.exc = TRUE,
                   !.products = CatchResult.products]
    ELSE [t EXCEPT !.st = "resolved", !.html = <<d>>,
                   !.products = Extract(s, d).products]

\* The task t after its pending attempt fails with error e (non-2xx, or fetch rejects):
\* the last attempt rethrows it, which fetchXProducts catches and answers []; an
\* earlier one sleeps delay * (i + 1).
TaskFail(t, e) ==
  IF LastAttempt(t.i)
    THEN [t EXCEPT !.st = CatchResult.st, !.errs = Append(@, e),
                   !.thrown = ThrownError(t.errs, e),
                   !.products = CatchResult.products]
    ELSE [t EXCEPT !.st = "sleeping", !.errs = Append(@, e),
                   !.delays = Append(@, Backoff(t.i))]

\* The task t after its backoff timer fires: the next attempt is issued.
TaskWake(t) ==
  [t EXCEPT !.st = "fetching", !.i = @ + 1, !.sent = Append(@, Route)]

\* fetchXProducts(query) up to its first await: attempt 0 of fetchWithRetry is issued
Started == [NoTask EXCEPT !.st = "fetching", !.sent = <<Route>>]

RlIdle ==
  /\ now = 0
  /\ rlInterval = LimiterInterval
  /\ rlLimit = LimiterLimit
  /\ tokens = [t \in Tokens |-> <<>>]
  /\ solo = [t \in Tokens |-> [u \in Tokens |-> <<>>]]
  /\ rlLog = <<>>

ExIdle ==
  /\ exSite = "amazon"
  /\ exDoc = [items |-> <<>>, alt |-> <<>>]
  /\ exOut = NoOutput
  /\ exDone = FALSE

NoBody == [error |-> "", message |-> "", amazon |-> <<>>, flipkart |-> <<>>]

\* route.ts:44-47  status === "fulfilled" ? value : []
Results_AllOrNothing(tk, s) ==
  IF \A u \in Sources : tk[u].st = "resolved" /\ tk[u].thrown = "none" /\ ~tk[u].exc
    THEN tk[s].products ELSE <<>>

\* the results read in the order the tasks settled, not by position
Results_ByArrival(tk, s) ==
  LET place == IF s = "amazon" THEN 1 ELSE 2
      at == {u \in DOMAIN tk : tk[u].rank = place /\ tk[u].st = "resolved"}
  IN IF at = {} THEN <<>> ELSE tk[CHOOSE u \in at : TRUE].products

Results(tk, s) == IF tk[s].st = "resolved" THEN tk[s].products ELSE <<>>

\* route.ts:56  !results.amazon.length && !results.flipkart.length
NothingFound_Either(amazon, flipkart) == Len(amazon) = 0 \/ Len(flipkart) = 0

NothingFound(amazon, flipkart) == Len(amazon) = 0 /\ Len(flipkart) = 0

\* Promise.allSettled has settled for every source.
AllSettled(tk) == \A s \in Sources : tk[s].st \in {"resolved", "rejected"}

\* route.ts:44-60  the response GET builds from the settled tasks tk
Answer(tk) ==
  LET amazon == Results(tk, "amazon")
      flipkart == Results(tk, "flipkart")
  IN IF NothingFound(amazon, flipkart)
       THEN [status |-> 404,
             body |-> [NoBody EXCEPT !.message = "No products found on either platform."]]
       ELSE [status |-> 200,
             body |-> [NoBody EXCEPT !.amazon = amazon, !.flipkart = flipkart]]

\* route.ts:28-42  GET on a request with query q, up to its first await or its
\* response. route.ts:30: the limiter.check call is a comment, so nothing is checked.
Accept(q) ==
  IF QueryMissing(q)
    THEN [pc |-> "done", status |-> 400,
          body |-> [NoBody EXCEPT !.error = "Query parameter is required"],
          task |-> [s \in Sources |-> NoTask]]
    ELSE [pc |-> "running", status |-> 0, body |-> NoBody,
          task |-> [s \in Sources |-> Started]]

\* ----------------------------------------------------------- scrapeProduct
NoScrape == [st |-> "idle", message |-> "", value |-> NoBody]

\* part_006:5  scrapeProduct(query) sends GET /api/scrape?q=<query>: a request without
\* the q parameter is not one of its calls.
Called(q) == IF q.some THEN [NoScrape EXCEPT !.st = "pending"] ELSE NoScrape

\* response.ok
Ok(st) == st >= 200 /\ st <= 299

\* part_006:7-12  what scrapeProduct does with the response (st, b): a body without
\* `message` has error.message undefined.
Settle(st, b) ==
  IF Ok(st)
    THEN [st |-> "returned", message |-> "", value |-> b]
    ELSE [st |-> "threw",
          message |-> IF b.message # "" THEN b.message ELSE "Failed to fetch products",
          value |-> NoBody]

\* ------------------------------------------------- a second invocation of GET
NoOther == [pc |-> "idle", query |-> None, task |-> [s \in Sources |-> NoTask],
            status |-> 0, body |-> NoBody]

\* ----------------------------------------------- fetchWithRetry, every attempt failing
\* route.ts:82  delay * (i + 1), for any delay
BackoffOf(delay, i) == delay * (i + 1)

\* route.ts:71-85  the loop from index i on when every attempt fails: acc counts the
\* attempts made and lists the delays waited
RECURSIVE FailingRun(_, _, _, _)
FailingRun(retries, delay, i, acc) ==
  IF ~(i < retries)
    THEN [acc EXCEPT !.thrown = "Failed to fetch after multiple retries"]
    ELSE IF i = retries - 1
      THEN [acc EXCEPT !.attempts = @ + 1, !.thrown = "error"]
      ELSE FailingRun(retries, delay, i + 1,
                      [acc EXCEPT !.attempts = @ + 1,
                                  !.waits = Append(@, BackoffOf(delay, i))])

NoRun == [attempts |-> 0, waits |-> <<>>, thrown |-> "none"]

NoBo == [retries |-> Retries, delay |-> Delay, run |-> NoRun]

HIdle ==
  /\ pc = "idle"
  /\ query = None
  /\ task = [s \in Sources |-> NoTask]
  /\ status = 0
  /\ body = NoBody
  /\ arrivals = <<>>
  /\ scrape = NoScrape
  /\ other = NoOther

BoIdle == bo = NoBo

\* searchParams.get("q") is null
NoQuery == "none"

\* the page mounted without a query, its effect run
NoPage ==
  [query |-> NoQuery, loading |-> FALSE, results |-> "empty", ref |-> 0, live |-> {},
   timers |-> {}, acks |-> {}, polls |-> {}, runs |-> 0, ids |-> 0, seen |-> "none"]

\* use-debounce.ts: a component that rendered useDebounce("a", 1) and whose first
\* timeout has fired. value is the input, debounced the state, timers the timeouts
\* pending as [v, due], since the instant of the last input change, changes and emits
\* the numbers of input changes and of changes of the state.
NoDeb ==
  [value |-> "a", debounced |-> "a", delay |-> 1, timers |-> {}, since |-> 0,
   changes |-> 0, emits |-> 0]

DebIdle == deb = NoDeb

UiIdle == page = NoPage /\ DebIdle

\* the handler at rest, outside its own specification
HConfig ==
  /\ proxyUrl = FALSE
  /\ useProxy = FALSE
  /\ HIdle

Init ==
  /\ RlIdle
  /\ UiIdle
  /\ ExIdle
  /\ BoIdle
  /\ proxyUrl \in BOOLEAN
  /\ useProxy \in BOOLEAN
  /\ HIdle

\* A request arrives and GET runs to its first await or to its response.
\* route.ts:30: the limiter.check call is a comment, so nothing is checked.
Receive(q) ==
  /\ pc \in {"idle", "done"}
  /\ Len(arrivals) < MaxRequests
  /\ arrivals' = IF QueryMissing(q) THEN arrivals ELSE Append(arrivals, now)
  /\ query' = q
  /\ pc' = Accept(q).pc
  /\ status' = Accept(q).status
  /\ body' = Accept(q).body
  /\ task' = Accept(q).task
  /\ scrape' = Called(q)
  /\ UNCHANGED <<uiVars, rlVars, exVars, proxyUrl, useProxy, other, bo>>

\* The pending attempt of source s is answered 2xx with document d: fetchWithRetry
\* returns it and the extractor runs over it, throwing or not (x).
FetchOk(s, d, x) ==
  /\ pc = "running"
  /\ task[s].st = "fetching"
  /\ task' = [task EXCEPT ![s] = Ranked(TaskOk(@, s, d, x), task)]
  /\ UNCHANGED <<uiVars, rlVars, exVars, proxyUrl, useProxy, pc, query, status, body, arrivals,
               scrape, other, bo>>

\* The pending attempt of source s fails with error e (non-2xx, or fetch rejects):
\* the last attempt rethrows it, which fetchXProducts catches and answers [];
\* an earlier one sleeps delay * (i + 1).
FetchFail(s, e) ==
  /\ pc = "running"
  /\ task[s].st = "fetching"
  /\ task' = [task EXCEPT ![s] = Ranked(TaskFail(@, e), task)]
  /\ UNCHANGED <<uiVars, rlVars, exVars, proxyUrl, useProxy, pc, query, status, body, arrivals,
               scrape, other, bo>>

\* The backoff timer of source s fires: the next attempt is issued.
Wake(s) ==
  /\ pc = "running"
  /\ task[s].st = "sleeping"
  /\ task' = [task EXCEPT ![s] = TaskWake(@)]
  /\ UNCHANGED <<uiVars, rlVars, exVars, proxyUrl, useProxy, pc, query, status, body, arrivals,
               scrape, other, bo>>

\* Promise.allSettled resolves: the handler answers.
Respond ==
  /\ pc = "running"
  /\ AllSettled(task)
  /\ status' = Answer(task).status
  /\ body' = Answer(task).body
  /\ pc' = "done"
  /\ UNCHANGED <<uiVars, rlVars, exVars, proxyUrl, useProxy, query, task, arrivals, scrape, other, bo>>

\* The response reaches scrapeProduct, which returns its body or throws.
ScrapeSettles ==
  /\ pc = "done"
  /\ scrape.st = "pending"
  /\ scrape' = Settle(status, body)
  /\ UNCHANGED <<uiVars, rlVars, exVars, proxyUrl, useProxy, pc, query, task, status, body, arrivals,
               other, bo>>

\* A rate-limit window passes: the arrivals that are a full interval old leave the log.
WindowElapses ==
  /\ now + LimiterInterval <= MaxWindows * LimiterInterval
  /\ now' = now + LimiterInterval
  /\ arrivals' = SelectSeq(arrivals, LAMBDA t : t > now' - LimiterInterval)
  /\ UNCHANGED <<uiVars, rlInterval, rlLimit, tokens, solo, rlLog, exVars, proxyUrl, useProxy, pc,
               query, task, status, body, scrape, other, bo>>

Request == \E q \in Queries : Receive(q)
Answered == \E s \in Sources : \E d \in Docs : \E x \in BOOLEAN : FetchOk(s, d, x)
Failed == \E s \in Sources : \E e \in Errors : FetchFail(s, e)
TimerFires == \E s \in Sources : Wake(s)

Next ==
  Request \/ Answered \/ Failed \/ TimerFires \/ Respond \/ ScrapeSettles \/ WindowElapses

Spec == Init /\ [][Next]_vars

\* The handler under the scheduling the runtime guarantees: a timer that is set fires,
\* a settled Promise.allSettled resumes the handler, a response reaches its caller.
\* Nothing makes a marketplace answer.
SpecFair ==
  /\ Init
  /\ [][Next]_vars
  /\ WF_vars(TimerFires)
  /\ WF_vars(Respond)
  /\ WF_vars(ScrapeSettles)

\* ------------------------------------------ two invocations of GET in flight
\* A second request arrives while the handler may be serving the first: GET keeps no
\* state between invocations, so it runs as for any request.
OtherReceive(q) ==
  /\ other.pc \in {"idle", "done"}
  /\ other' = [pc |-> Accept(q).pc, query |-> q, task |-> Accept(q).task,
               status |-> Accept(q).status, body |-> Accept(q).body]
  /\ UNCHANGED <<uiVars, rlVars, exVars, proxyUrl, useProxy, pc, query, task, status, body, arrivals,
               scrape, bo>>

OtherFetchOk(s, d, x) ==
  /\ other.pc = "running"
  /\ other.task[s].st = "fetching"
  /\ other' = [other EXCEPT !.task[s] = Ranked(TaskOk(@, s, d, x), other.task)]
  /\ UNCHANGED <<uiVars, rlVars, exVars, proxyUrl, useProxy, pc, query, task, status, body, arrivals,
               scrape, bo>>

OtherFetchFail(s, e) ==
  /\ other.pc = "running"
  /\ other.task[s].st = "fetching"
  /\ other' = [other EXCEPT !.task[s] = Ranked(TaskFail(@, e), other.task)]
  /\ UNCHANGED <<uiVars, rlVars, exVars, proxyUrl, useProxy, pc, query, task, status, body, arrivals,
               scrape, bo>>

OtherWake(s) ==
  /\ other.pc = "running"
  /\ other.task[s].st = "sleeping"
  /\ other' = [other EXCEPT !.task[s] = TaskWake(@)]
  /\ UNCHANGED <<uiVars, rlVars, exVars, proxyUrl, useProxy, pc, query, task, status, body, arrivals,
               scrape, bo>>

OtherRespond ==
  /\ other.pc = "running"
  /\ AllSettled(other.task)
  /\ other' = [other EXCEPT !.pc = "done", !.status = Answer(other.task).status,
                            !.body = Answer(other.task).body]
  /\ UNCHANGED <<uiVars, rlVars, exVars, proxyUrl, useProxy, pc, query, task, status, body, arrivals,
               scrape, bo>>

\* the queries of the two-invocation runs: one key, written two ways
DupQueries == {Some(<<"t", "v">>), Some(<<" ", "T", "V">>)}

InitDup ==
  /\ RlIdle
  /\ UiIdle
  /\ ExIdle
  /\ BoIdle
  /\ HConfig

FirstRequest == \E q \in DupQueries : Receive(q)
FirstAnswered == \E s \in Sources : FetchOk(s, ListingDoc, FALSE)
FirstFailed == \E s \in Sources : FetchFail(s, "fetch failed")
SecondRequest == \E q \in DupQueries : OtherReceive(q)
SecondAnswered == \E s \in Sources : OtherFetchOk(s, ListingDoc, FALSE)
SecondFailed == \E s \in Sources : OtherFetchFail(s, "fetch failed")
SecondTimerFires == \E s \in Sources : OtherWake(s)

NextDup ==
  \/ FirstRequest \/ FirstAnswered \/ FirstFailed \/ TimerFires \/ Respond \/ ScrapeSettles
  \/ SecondRequest \/ SecondAnswered \/ SecondFailed \/ SecondTimerFires \/ OtherRespond

SpecDup == InitDup /\ [][NextDup]_vars

\* ------------------------------------------- runs of fetchWithRetry that fail
\* the values of the delay parameter the runs are made with
Delays == {500, Delay, 2000}

InitBackoff ==
  /\ RlIdle
  /\ UiIdle
  /\ ExIdle
  /\ HConfig
  /\ bo \in [retries : 0..MaxRetries, delay : Delays, run : {NoRun}]

\* fetchWithRetry(url, retries, delay) runs and every attempt fails.
RunBackoff ==
  /\ bo.run = NoRun
  /\ bo' = [bo EXCEPT !.run = FailingRun(bo.retries, bo.delay, 0, NoRun)]
  /\ UNCHANGED <<uiVars, rlVars, exVars, proxyUrl, useProxy, pc, query, task, status, body, arrivals,
               scrape, other>>

NextBackoff == RunBackoff

SpecBackoff == InitBackoff /\ [][NextBackoff]_vars

\* ------------------------------------------------------------ search page
\* search/page.tsx. The component is its state (query from the URL, loading, results),
\* pollingIntervalRef (ref, 0 for null), the intervals registered and not cleared
\* (live), the 45 s timeouts pending (timers), the scrapeProduct calls in flight (acks)
\* and the poll requests in flight (polls). An interval or timeout is [id, q]: q is the
\* searchQuery its closure holds. results names the query whose records are shown;
\* seen is what the latest settled poll met.
PageQueries == {"A", "B"}

\* what a poll meets: 200 with records, 200 with two empty lists, 202, another
\* status, fetch rejecting
PollOutcomes == {"full", "empty", "pending", "gone", "error"}

\* page.tsx:53-58
stopPolling(pg) ==
  IF pg.ref # 0
    THEN [pg EXCEPT !.live = {i \in @ : i.id # pg.ref}, !.ref = 0]
    ELSE pg

\* page.tsx:60-86  up to the registration of the interval and of the 45 s timeout
pollResults_NoStop(pg, searchQuery) ==
  LET id == pg.ids + 1
  IN [pg EXCEPT !.ref = id, !.ids = id,
                !.live = @ \cup {[id |-> id, q |-> searchQuery]},
                !.timers = @ \cup {[id |-> id, q |-> searchQuery]}]

pollResults(pg, searchQuery) ==
  LET id == pg.ids + 1
  IN [stopPolling(pg) EXCEPT !.ref = id, !.ids = id,
                             !.live = @ \cup {[id |-> id, q |-> searchQuery]},
                             !.timers = @ \cup {[id |-> id, q |-> searchQuery]}]

\* page.tsx:65-77  the interval callback of request p once its fetch has settled
OnPoll_AnyOk(pg, p, outcome) ==
  IF outcome = "full" THEN [pg EXCEPT !.results = p.q]
  ELSE IF outcome = "empty" THEN [pg EXCEPT !.results = "empty"]
  ELSE IF outcome = "pending" THEN pg
  ELSE stopPolling(pg)

OnPoll(pg, p, outcome) ==
  IF outcome = "full" THEN [pg EXCEPT !.results = p.q]
  ELSE IF outcome \in {"empty", "pending"} THEN pg
  ELSE stopPolling(pg)

\* page.tsx:88-105  the query becomes q: the cleanup of the previous effect, then the
\* effect
Effect(pg, q) ==
  IF q # NoQuery
    THEN [stopPolling(pg) EXCEPT !.query = q, !.loading = TRUE, !.results = "empty",
                                 !.acks = @ \cup {[n |-> pg.runs + 1, q |-> q]},
                                 !.runs = @ + 1]
    ELSE [stopPolling(pg) EXCEPT !.query = q, !.loading = FALSE, !.runs = @ + 1]

\* page.tsx:84-88  the 45 s timeout t fires
OnDeadline(pg, t) == [stopPolling(pg) EXCEPT !.timers = @ \ {t}, !.loading = FALSE]

InitPage ==
  /\ RlIdle
  /\ ExIdle
  /\ BoIdle
  /\ HConfig
  /\ UiIdle

\* The URL's q changes (router.push): the component re-renders and its effect runs.
Navigate(q) ==
  /\ page.runs < MaxChanges
  /\ q # page.query
  /\ page' = Effect(page, q)
  /\ UNCHANGED <<rlVars, exVars, hVars, deb>>

\* scrapeProduct(a.q) resolves: the .then callback calls pollResults(a.q).
AckOk(a) ==
  /\ a \in page.acks
  /\ page' = pollResults([page EXCEPT !.acks = @ \ {a}], a.q)
  /\ UNCHANGED <<rlVars, exVars, hVars, deb>>

\* scrapeProduct(a.q) rejects: the .catch callback clears loading.
AckFail(a) ==
  /\ a \in page.acks
  /\ page' = [page EXCEPT !.acks = @ \ {a}, !.loading = FALSE]
  /\ UNCHANGED <<rlVars, exVars, hVars, deb>>

\* The interval i fires: a poll request for i.q is issued.
PollTick(i) ==
  /\ i \in page.live
  /\ i \notin page.polls
  /\ page' = [page EXCEPT !.polls = @ \cup {i}]
  /\ UNCHANGED <<rlVars, exVars, hVars, deb>>

\* The poll request p settles.
PollAnswered(p, outcome) ==
  /\ p \in page.polls
  /\ page' = OnPoll([page EXCEPT !.polls = @ \ {p}, !.seen = outcome], p, outcome)
  /\ UNCHANGED <<rlVars, exVars, hVars, deb>>

\* The 45 s timeout t fires.
Deadline(t) ==
  /\ t \in page.timers
  /\ page' = OnDeadline(page, t)
  /\ UNCHANGED <<rlVars, exVars, hVars, deb>>

QueryChanges == \E q \in PageQueries \cup {NoQuery} : Navigate(q)
Acknowledged == \E a \in page.acks : AckOk(a)
Refused == \E a \in page.acks : AckFail(a)
IntervalFires == \E i \in page.live : PollTick(i)
PollSettles == \E p \in page.polls : \E o \in PollOutcomes : PollAnswered(p, o)
DeadlineFires == \E t \in page.timers : Deadline(t)

NextPage ==
  QueryChanges \/ Acknowledged \/ Refused \/ IntervalFires \/ PollSettles \/ DeadlineFires

SpecPage == InitPage /\ [][NextPage]_vars

\* -------------------------------------------------------- extractor runs
InitExtract ==
  /\ RlIdle
  /\ UiIdle
  /\ BoIdle
  /\ HConfig
  /\ exSite \in Sources
  /\ exDoc \in DocInputs
  /\ exOut = NoOutput
  /\ exDone = FALSE

\* The extractor runs over the document.
RunExtract ==
  /\ ~exDone
  /\ exOut' = Extract(exSite, exDoc)
  /\ exDone' = TRUE
  /\ UNCHANGED <<uiVars, exSite, exDoc, rlVars, hVars>>

NextExtract == RunExtract

SpecExtract == InitExtract /\ [][NextExtract]_vars

\* ------------------------------------------------------- rate limiter runs

EmptyMap == [t \in Tokens |-> <<>>]

InitRL ==
  /\ now = 0
  /\ rlInterval \in 1..MaxInterval
  /\ rlLimit \in 1..MaxLimit
  /\ tokens = EmptyMap
  /\ solo = [t \in Tokens |-> EmptyMap]
  /\ rlLog = <<>>
  /\ ExIdle
  /\ BoIdle
  /\ UiIdle
  /\ HConfig

\* One call of limiter.check(rlLimit, token); the body has no await, so it is atomic.
Check(token) ==
  /\ Len(rlLog) < MaxCalls
  /\ LET r == check(tokens, rlInterval, rlLimit, token, now)
         s == check(solo[token], rlInterval, rlLimit, token, now)
     IN /\ tokens' = r.tokens
        /\ solo' = [solo EXCEPT ![token] = s.tokens]
        /\ rlLog' = Append(rlLog, [token |-> token, t |-> now, ok |-> r.ok, soloOk |-> s.ok])
  /\ UNCHANGED <<uiVars, now, rlInterval, rlLimit, exVars, hVars>>

\* The clock advances by d.
Advance(d) ==
  /\ now + d <= MaxTime
  /\ now' = now + d
  /\ UNCHANGED <<uiVars, rlInterval, rlLimit, tokens, solo, rlLog, exVars, hVars>>

Tick == Advance(1)

CheckCall == \E token \in Tokens : Check(token)

NextRL == CheckCall \/ Tick

SpecRL == InitRL /\ [][NextRL]_vars

\* ------------------------------------------------------------ useDebounce
DebValues == {"a", "b", "c"}

\* use-debounce.ts:6-15  the effect for input v at instant clock, without the cleanup
\* of the previous one
DebEffect_NoCleanup(d, v, clock) ==
  [d EXCEPT !.timers = @ \cup {[v |-> v, due |-> clock + d.delay]}]

\* use-debounce.ts:6-15  the cleanup of the previous effect (clearTimeout), then the
\* effect for input v at instant clock (setTimeout)
DebEffect(d, v, clock) ==
  [d EXCEPT !.timers = {[v |-> v, due |-> clock + d.delay]}]

\* use-debounce.ts:8  the timeout t fires: setDebouncedValue(value)
DebSet(d, t) ==
  [d EXCEPT !.debounced = t.v, !.timers = @ \ {t},
            !.emits = IF t.v # d.debounced THEN @ + 1 ELSE @]

\* the first render of useDebounce("a", delay) at instant 0 and its effect
InitDebounce ==
  /\ RlIdle
  /\ ExIdle
  /\ BoIdle
  /\ HConfig
  /\ page = NoPage
  /\ deb \in {DebEffect([NoDeb EXCEPT !.delay = dl], "a", 0) : dl \in 1..MaxDelay}

\* The input changes to v: the component re-renders and the effect runs again. The
\* change comes while its timeout still fits in the clock's range.
DebChange(v) ==
  /\ deb.changes < MaxEdits
  /\ v # deb.value
  /\ now + deb.delay <= MaxTime
  /\ deb' = DebEffect([deb EXCEPT !.value = v, !.since = now, !.changes = @ + 1], v, now)
  /\ UNCHANGED <<rlVars, exVars, hVars, page>>

\* A timeout that is due fires.
DebFire(t) ==
  /\ t \in deb.timers
  /\ now >= t.due
  /\ deb' = DebSet(deb, t)
  /\ UNCHANGED <<rlVars, exVars, hVars, page>>

InputChanges == \E v \in DebValues : DebChange(v)
TimeoutFires == \E t \in deb.timers : DebFire(t)

NextDebounce == InputChanges \/ TimeoutFires \/ Tick

\* Time passes and a timeout that is due fires.
SpecDebounce ==
  /\ InitDebounce
  /\ [][NextDebounce]_vars
  /\ WF_vars(Tick)
  /\ WF_vars(TimeoutFires)

\* The calls of check made for one token, in order.
CallsOf(tok) == SelectSeq(rlLog, LAMBDA c : c.token = tok)

\* Call i of lg comes when every earlier admission is a full interval old.
Fresh(lg, i) == \A a \in 1..(i - 1) : lg[a].ok => lg[i].t - lg[a].t >= rlInterval

\* C1: for one token and a fixed limit L, a call made once the interval has fully
\* elapsed since the earlier admissions is admitted, and of the calls made within one
\* interval from it the first L are admitted and every later one is rejected.
C1_WindowAdmission ==
  \A tok \in Tokens :
    LET lg == CallsOf(tok)
    IN \A i \in 1..Len(lg) :
         Fresh(lg, i) =>
           /\ lg[i].ok
           /\ \A k \in i..Len(lg) :
                lg[k].t - lg[i].t < rlInterval => (lg[k].ok <=> (k - i + 1 <= rlLimit))

\* N > L calls within one interval, the last of them rejected, and a later call made
\* after the interval has elapsed, admitted.
C1_Witness ==
  \E tok \in Tokens :
    LET lg == CallsOf(tok)
    IN \E i, k, j \in 1..Len(lg) :
         /\ i < k /\ k < j
         /\ Fresh(lg, i)
         /\ k - i + 1 > rlLimit
         /\ lg[k].t - lg[i].t < rlInterval
         /\ ~lg[k].ok
         /\ Fresh(lg, j)
         /\ lg[j].ok

\* C2: the admitted calls of one token whose timestamps lie within a span shorter
\* than the interval never number more than L, and each decision counts exactly the
\* admissions less than one interval old: one that is interval or more old never counts.
C2_SlidingWindow ==
  \A tok \in Tokens :
    LET lg == CallsOf(tok)
    IN /\ \A i, j \in 1..Len(lg) :
            (i <= j /\ lg[i].ok /\ lg[j].ok /\ lg[j].t - lg[i].t < rlInterval)
              => Cardinality({a \in i..j : lg[a].ok}) <= rlLimit
       /\ \A j \in 1..Len(lg) :
            lg[j].ok <=>
              Cardinality({a \in 1..(j - 1) : lg[a].ok /\ lg[a].t > lg[j].t - rlInterval})
                < rlLimit

\* A call admitted although L or more earlier admissions exist, one of them exactly
\* one interval old.
C2_Witness ==
  \E tok \in Tokens :
    LET lg == CallsOf(tok)
    IN \E j \in 1..Len(lg) :
         /\ lg[j].ok
         /\ Cardinality({a \in 1..(j - 1) : lg[a].ok}) >= rlLimit
         /\ \E a \in 1..(j - 1) : lg[a].ok /\ lg[j].t - lg[a].t = rlInterval
         /\ \E r \in 1..(j - 1) : ~lg[r].ok

\* A check call for token a leaves the stored window of every other token as it was.
C3_Frame ==
  \A a \in Tokens :
    (Len(rlLog') > Len(rlLog) /\ rlLog'[Len(rlLog')].token = a)
      => \A b \in Tokens \ {a} : tokens'[b] = tokens[b]

\* Each call had the outcome it has in a limiter that sees that token's calls only,
\* and each token's window is the one that limiter holds.
C3_SoloAgree ==
  /\ \A k \in 1..Len(rlLog) : rlLog[k].ok = rlLog[k].soloOk
  /\ \A b \in Tokens : tokens[b] = solo[b][b]

\* C3: windows are isolated per token: a check for token A never changes the stored
\* window of another token B, and B's admit/reject outcomes are the same whether or
\* not calls for A are interleaved with B's.
C3_TokenIsolation == [](C3_SoloAgree) /\ [][C3_Frame]_vars

\* A call for one token between two calls of another, whose second call is rejected.
C3_Witness ==
  \E i, j, k \in 1..Len(rlLog) :
    /\ i < j /\ j < k
    /\ rlLog[i].token = rlLog[k].token
    /\ rlLog[j].token # rlLog[i].token
    /\ rlLog[j].ok
    /\ ~rlLog[k].ok

\* The earlier searches that arrived less than one limiter interval before the
\* latest one.
InWindowBefore ==
  Cardinality({k \in 1..(Len(arrivals) - 1) :
                 arrivals[k] > arrivals[Len(arrivals)] - LimiterInterval})

\* C4: a search that arrives when 5 searches have already arrived within the
\* rate-limit window is answered 429 and starts no outbound fetch; one that arrives
\* with fewer than 5 in the window is not answered 429.
C4_SixthRequestRejected ==
  (pc # "idle" /\ Truthy(query)) =>
    IF InWindowBefore >= LimiterLimit
      THEN /\ \A s \in Sources : task[s].sent = <<>>
           /\ pc = "done" => status = 429
      ELSE status # 429

\* C5: a request whose query is missing or empty is answered 400 at once, and no
\* source task is started nor any outbound fetch issued for it.
C5_EmptyQueryRejected ==
  (pc # "idle" /\ ~Truthy(query)) =>
    /\ pc = "done"
    /\ status = 400
    /\ \A s \in Sources : task[s] = NoTask

\* A request with q present and empty, answered 400.
C5_Witness ==
  /\ pc = "done"
  /\ query = Some(<<>>)
  /\ status = 400
  /\ \A s \in Sources : task[s].sent = <<>>

\* The attempts of source s issued directly to the origin.
DirectAttempts(s) == {k \in 1..Len(task[s].sent) : task[s].sent[k] = "direct"}

\* C6: a routed request is issued for a URL only after the direct tier has made and
\* failed all its retries for that URL.
C6_RoutedOnlyAfterDirect ==
  \A s \in Sources :
    \A k \in 1..Len(task[s].sent) :
      task[s].sent[k] = "routed" =>
        /\ Cardinality({j \in DirectAttempts(s) : j < k}) = Retries
        /\ Len(task[s].errs) >= Retries

\* C7: when every direct attempt of a source has failed and the routed tier is
\* configured, the source's task does not end before a routed attempt is made, and
\* when that attempt succeeds the result is the records extracted from its document,
\* with no error.
C7_RoutedResultUsed ==
  \A s \in Sources :
    (/\ task[s].st = "resolved"
     /\ proxyUrl
     /\ Cardinality(DirectAttempts(s)) = Retries
     /\ Len(task[s].errs) >= Retries)
      => /\ \E k \in 1..Len(task[s].sent) : task[s].sent[k] = "routed"
         /\ task[s].html # <<>> =>
              /\ task[s].products = Extract(s, task[s].html[1]).products
              /\ task[s].thrown = "none"

\* C8: with no intermediary endpoint configured no routed request is ever issued,
\* and a fetch whose every direct attempt fails ends as soon as the retries are
\* exhausted, the failure carrying the error of the last attempt.
C8_DirectOnlyFailure ==
  ~proxyUrl =>
    \A s \in Sources :
      /\ \A k \in 1..Len(task[s].sent) : task[s].sent[k] = "direct"
      /\ Len(task[s].errs) = Retries =>
           /\ task[s].st = "resolved"
           /\ Len(task[s].sent) = Retries
           /\ Len(task[s].delays) = Retries - 1
           /\ task[s].thrown = task[s].errs[Retries]
           /\ task[s].products = <<>>
      /\ task[s].thrown # "none" => Len(task[s].errs) = Retries

\* No intermediary, and a fetch whose two attempts failed with different errors.
C8_Witness ==
  /\ ~proxyUrl
  /\ \E s \in Sources :
       /\ task[s].st = "resolved"
       /\ Len(task[s].errs) = Retries
       /\ task[s].errs[1] # task[s].errs[Retries]
       /\ task[s].thrown = task[s].errs[Retries]

\* The container record k of the output was built from.
SourceOf(k) == Containers(exSite, exDoc)[exOut.from[k]]

\* The container carries a detail link its extractor can resolve.
HasLink(site, el) ==
  IF site = "amazon" THEN Truthy(el.href) ELSE Truthy(el.href) \/ Truthy(el.href2)

\* C9: every record emitted by either extractor has a non-empty name, price, image
\* and url as emitted, and none is emitted for a container that lacks a title, a
\* price, an image or a resolvable detail link.
C9_RequiredFields ==
  exDone =>
    \A k \in 1..Len(exOut.products) :
      LET p == exOut.products[k]
          el == SourceOf(k)
      IN /\ p.name # <<>> /\ p.price # <<>> /\ p.image # <<>> /\ p.url # <<>>
         /\ Trim(el.title) # <<>> \/ (exSite = "flipkart" /\ Trim(el.title2) # <<>>)
         /\ Trim(el.price) # <<>>
         /\ Truthy(el.image)
         /\ HasLink(exSite, el)

\* C10: a source's result holds at most 5 records, and once the fifth record is
\* collected the traversal reads no later container.
C10_ItemCap ==
  exDone =>
    /\ Len(exOut.products) <= ItemCap
    /\ Len(exOut.from) = Len(exOut.products)
    /\ Len(exOut.products) = ItemCap =>
         \A k \in 1..Len(exOut.seen) : exOut.seen[k] <= exOut.from[ItemCap]

\* A document with valid containers left after the fifth record.
C10_Witness ==
  /\ exDone
  /\ Len(exOut.products) = ItemCap
  /\ \E j \in 1..Len(exDoc.items) :
       j > exOut.from[ItemCap] /\ exDoc.items[j] = GoodItem

\* No listing container of source s matches in document d.
ZeroContainers(s, d) ==
  IF s = "amazon" THEN d.items = <<>> ELSE d.items = <<>> /\ d.alt = <<>>

\* The task of source s met a failure: fetchWithRetry threw, or the extraction threw.
SourceFailed(s) == task[s].thrown # "none" \/ task[s].exc

\* The other source.
Peer(s) == CHOOSE u \in Sources : u # s

\* C11: a source task whose document holds no matching listing container resolves,
\* with an empty list.
C11_EmptyDocument ==
  \A s \in Sources :
    (task[s].html # <<>> /\ ZeroContainers(s, task[s].html[1])) =>
      /\ task[s].st = "resolved"
      /\ task[s].products = <<>>

\* A task that parsed a document without containers, with no exception.
C11_Witness ==
  \E s \in Sources :
    /\ task[s].html = <<BlockDoc>>
    /\ ~task[s].exc
    /\ task[s].st = "resolved"
    /\ task[s].products = <<>>

\* C12: whatever the other source does and whenever it finishes, a source that failed
\* (fetch failure or extraction exception) resolves with an empty list, a source whose
\* document was parsed resolves with its records at once, and the response is 200 or
\* 404 and carries each surviving source's records unchanged.
C12_IndependentSources ==
  \A s \in Sources :
    /\ (task[s].st # "idle" /\ SourceFailed(s)) =>
         task[s].st = "resolved" /\ task[s].products = <<>>
    /\ (task[s].html # <<>> /\ ~task[s].exc) =>
         /\ task[s].st = "resolved"
         /\ task[s].products = Extract(s, task[s].html[1]).products
    /\ (pc = "done" /\ Truthy(query)) =>
         /\ status \in {200, 404}
         /\ (~SourceFailed(s) /\ Extract(s, task[s].html[1]).products # <<>>) =>
              /\ status = 200
              /\ body[s] = Extract(s, task[s].html[1]).products
              /\ SourceFailed(Peer(s)) => body[Peer(s)] = <<>>

\* A response carrying flipkart's records although amazon's extraction threw.
C12_Witness ==
  /\ pc = "done"
  /\ status = 200
  /\ task["amazon"].exc
  /\ body["amazon"] = <<>>
  /\ body["flipkart"] = Extract("flipkart", ListingDoc).products
  /\ body["flipkart"] # <<>>

\* C13: for a request carrying a query, the response is 404 exactly when both sources
\* have finished and both lists are empty; when a source yielded a record it is 200
\* with a body holding exactly each source's records.
C13_ResponseStatus ==
  Truthy(query) =>
    /\ status # 0 => pc = "done" /\ AllSettled(task)
    /\ pc = "done" =>
         /\ status = 404 <=> \A s \in Sources : task[s].products = <<>>
         /\ (\E s \in Sources : task[s].products # <<>>) =>
              /\ status = 200
              /\ \A s \in Sources : body[s] = task[s].products

\* A 200 response with one list empty and the other not.
C13_Witness ==
  /\ pc = "done"
  /\ status = 200
  /\ body["amazon"] = <<>>
  /\ task["amazon"].html = <<BlockDoc>>
  /\ body["flipkart"] # <<>>

\* C14: for a request carrying a non-empty query in which a marketplace fetch or
\* extraction failed, the response is not an error response and scrapeProduct does
\* not throw.
C14_FailuresNotSurfaced ==
  (Truthy(query) /\ \E s \in Sources : SourceFailed(s)) =>
    /\ pc = "done" => Ok(status)
    /\ scrape.st # "threw"

\* Case folding of the letters the queries use.
Fold(c) == IF c = "T" THEN "t" ELSE IF c = "V" THEN "v" ELSE c

\* The normalized key of a query: trimmed and case-folded.
Key(q) == LET t == Trim(q.val) IN [k \in 1..Len(t) |-> Fold(t[k])]

\* An invocation with these tasks has marketplace fetches going.
Orchestrating(p, tk) == p = "running" /\ \E s \in Sources : tk[s].sent # <<>>

\* C15: two submissions of one normalized query key, the second made while the first
\* is in progress, never have two orchestrations going at once.
C15_OneOrchestrationPerKey ==
  (Truthy(query) /\ Truthy(other.query) /\ Key(query) = Key(other.query)) =>
    ~(Orchestrating(pc, task) /\ Orchestrating(other.pc, other.task))

\* The task of source s has not finished.
Unfinished(s) == task[s].st \in {"fetching", "sleeping"}

\* C16: while neither source has finished the caller observes empty data, and once
\* one source has finished with records while the other has not, the caller observes
\* a 200 response with those records and an empty list for the other.
C16_ProgressiveResults ==
  pc = "running" =>
    /\ (\A s \in Sources : Unfinished(s)) =>
         body["amazon"] = <<>> /\ body["flipkart"] = <<>>
    /\ \A a \in Sources :
         (task[a].st = "resolved" /\ task[a].products # <<>> /\ Unfinished(Peer(a))) =>
           /\ status = 200
           /\ body[a] = task[a].products
           /\ body[Peer(a)] = <<>>

\* C17: every search that was accepted eventually gets its response.
C17_EventuallyTerminal == (pc = "running") ~> (pc = "done")

\* C18: a run of fetchWithRetry never makes more than `retries` attempts; a failed
\* attempt of either kind with attempts remaining is followed by a backoff and the
\* next attempt; a successful attempt ends the run at once.
C18_RetryRun ==
  \A s \in Sources :
    LET t == task[s]
    IN /\ Len(t.sent) <= Retries
       /\ t.st = "fetching" => t.html = <<>> /\ Len(t.sent) = Len(t.errs) + 1
       /\ t.st = "sleeping" =>
            /\ t.html = <<>>
            /\ Len(t.sent) = Len(t.errs)
            /\ Len(t.errs) < Retries
       /\ (t.st = "resolved" /\ t.html = <<>>) =>
            /\ Len(t.errs) = Retries
            /\ Len(t.sent) = Retries
       /\ t.html # <<>> =>
            /\ t.st = "resolved"
            /\ Len(t.sent) = Len(t.errs) + 1
       /\ \A k \in 1..Len(t.errs) :
            k < Retries => (Len(t.delays) >= k /\ t.delays[k] = Delay * k)

\* A run whose first attempt was answered 503 and another whose first attempt failed
\* in the network, both retried once and then answered.
C18_Witness ==
  /\ task["amazon"].errs = <<"HTTP error! status: 503">>
  /\ task["flipkart"].errs = <<"fetch failed">>
  /\ \A s \in Sources :
       /\ Len(task[s].sent) = 2
       /\ task[s].html # <<>>
       /\ task[s].delays = <<Delay>>

ValidItem(site, el) ==
  /\ site = "amazon" => Truthy(el.asin)
  /\ Trim(el.title) # <<>> \/ (site = "flipkart" /\ Trim(el.title2) # <<>>)
  /\ Trim(el.price) # <<>>
  /\ Truthy(el.image)
  /\ HasLink(site, el)

\* The indices of the valid items among els, in document order.
ValidIndices(site, els) ==
  SelectSeq([i \in 1..Len(els) |-> i], LAMBDA i : ValidItem(site, els[i]))

\* The first n elements of sequence q.
Take(q, n) == SubSeq(q, 1, IF Len(q) < n THEN Len(q) ELSE n)

\* C20: the records emitted for a document are exactly those of its valid items, in
\* document order, truncated to the item cap, whatever invalid items lie among them.
C20_ExactlyValidItems ==
  exDone =>
    exOut.from = Take(ValidIndices(exSite, Containers(exSite, exDoc)), ItemCap)

\* The number a text denotes, for the claim: its first embedded number, read with or
\* without the thousands separators and blanks cleanText removes; "0" when it has none.
FirstNumbers(text) == {getFirstNumber(text), getFirstNumber(cleanText(text))}

\* C21: in every emitted record, rating and reviews are each the first number embedded
\* in the source text, or "0" when the text is absent or holds no number.
C21_NumericRatingReviews ==
  exDone =>
    \A k \in 1..Len(exOut.products) :
      /\ exOut.products[k].rating \in FirstNumbers(SourceOf(k).rating)
      /\ exOut.products[k].reviews \in FirstNumbers(SourceOf(k).reviews)

\* The base URL of a source.
BaseOf(site) == IF site = "amazon" THEN AmazonBase ELSE FlipkartBase

\* The detail link the extractor of `site` reads from container el.
LinkOf(site, el) == IF site = "amazon" THEN el.href.val ELSE OrElse(el.href, el.href2).val

\* The link starts with an origin: it is absolute.
Absolute(link) == link # <<>> /\ Head(link) \in {Head(AmazonBase), Head(FlipkartBase)}

\* The link resolved against base.
Resolve(base, link) == IF Absolute(link) THEN link ELSE base \o link

\* A well-formed URL into `site`: its origin, once, then a path.
WellFormedInto(site, url) ==
  /\ Len(url) > 1
  /\ Head(url) = Head(BaseOf(site))
  /\ url[2] = "/"
  /\ \A k \in 2..Len(url) : ~Absolute(<<url[k]>>)

\* C22: the url of every record emitted for a container whose detail link is relative,
\* or absolute into the source's marketplace, is that link resolved against the
\* source's base URL, and is a well-formed URL into that marketplace.
C22_AbsoluteUrl ==
  exDone =>
    \A k \in 1..Len(exOut.products) :
      LET link == LinkOf(exSite, SourceOf(k))
      IN (HasLink(exSite, SourceOf(k)) /\ (~Absolute(link) \/ StartsWith(link, BaseOf(exSite)))) =>
           /\ exOut.products[k].url = Resolve(BaseOf(exSite), link)
           /\ WellFormedInto(exSite, exOut.products[k].url)

\* C23: a source task extracts only from a document its fetch returned, after the
\* attempt that returned it, and the response depends on what each source yielded,
\* not on the order in which the two tasks finished.
C23_FetchBeforeExtract ==
  /\ \A s \in Sources :
       LET t == task[s]
       IN /\ (t.products # <<>> \/ t.exc) => t.html # <<>>
          /\ t.html # <<>> => t.thrown = "none" /\ Len(t.sent) = Len(t.errs) + 1
          /\ t.st \in {"fetching", "sleeping"} => t.html = <<>> /\ t.products = <<>>
  /\ (pc = "done" /\ Truthy(query)) =>
       LET yield == [s \in Sources |->
                       IF SourceFailed(s) THEN <<>>
                       ELSE Extract(s, task[s].html[1]).products]
       IN IF \A s \in Sources : yield[s] = <<>>
            THEN status = 404
            ELSE status = 200 /\ \A s \in Sources : body[s] = yield[s]

\* A response with both sources' records where flipkart's task finished first.
C23_Witness ==
  /\ pc = "done"
  /\ status = 200
  /\ task["flipkart"].rank = 1
  /\ task["amazon"].rank = 2
  /\ body["amazon"] # <<>>
  /\ body["flipkart"] # <<>>

\* C24: a 45 s timeout that fires stops only the polling its own call of pollResults
\* started, and clears the loading state only of the query it was started for.
C24_OwnDeadline ==
  [][\A t \in page.timers \ page'.timers :
       /\ page.ref \notin {0, t.id} => page'.ref = page.ref
       /\ (t.q # page.query /\ page.loading) => page'.loading]_vars

\* C25: the records shown belong to the current query, and every interval polling is
\* polling for the current query.
C25_CurrentQueryOnly ==
  /\ page.results \in {"empty", page.query}
  /\ \A i \in page.live : i.q = page.query

\* At most one interval is registered, and it is the one the ref holds.
OneInterval ==
  /\ Cardinality(page.live) <= 1
  /\ \A i \in page.live : i.id = page.ref
  /\ page.ref # 0 => \E i \in page.live : i.id = page.ref

\* A poll request is issued only by the interval the ref holds.
PollsFromRef == \A p \in page'.polls \ page.polls : page.ref = p.id

\* C26: at most one polling interval is registered at any time, also when pollResults
\* is called while one is registered, and no poll request is issued while none is.
C26_OneInterval == [](OneInterval) /\ [][PollsFromRef]_vars

\* pollResults was called for A, late, while the interval of B was registered: only the
\* new interval is left.
C26_Witness ==
  /\ page.query = "B"
  /\ page.live = {[id |-> 2, q |-> "A"]}
  /\ page.ref = 2
  /\ [id |-> 1, q |-> "B"] \in page.timers
  /\ page.polls # {}

\* C27: while the query stays the same, a settled poll changes the records shown only
\* when it met 200 with records, and then to those records; nothing else changes
\* them, so they are never replaced by an empty set.
C27_NoEmptyReplacement ==
  [][page'.query = page.query =>
       /\ \A p \in page.polls \ page'.polls :
            IF page'.seen = "full"
              THEN page'.results = p.q
              ELSE page'.results = page.results
       /\ page.polls \ page'.polls = {} => page'.results = page.results]_vars

\* Records are shown and the latest poll met 200 with two empty lists.
C27_Witness ==
  /\ page.results = "A"
  /\ page.query = "A"
  /\ page.seen = "empty"

\* Every instant a token's stored window holds is the instant of an admitted call of
\* that token.
StoredAreAdmissions ==
  \A tok \in Tokens :
    \A k \in 1..Len(tokens[tok]) :
      \E c \in 1..Len(rlLog) :
        rlLog[c].token = tok /\ rlLog[c].ok /\ rlLog[c].t = tokens[tok][k]

\* A call that is rejected leaves the Map as it was.
RejectFrame ==
  (Len(rlLog') > Len(rlLog) /\ ~rlLog'[Len(rlLog')].ok) => tokens' = tokens

\* C28: a rejected check leaves the stored windows unchanged and records no
\* timestamp: the windows hold the instants of admitted calls only.
C28_RejectionRecordsNothing == [](StoredAreAdmissions) /\ [][RejectFrame]_vars

\* A token rejected at one instant and admitted less than one interval later.
C28_Witness ==
  \E tok \in Tokens :
    LET lg == CallsOf(tok)
    IN \E i, j \in 1..Len(lg) :
         /\ i < j
         /\ ~lg[i].ok
         /\ lg[j].ok
         /\ lg[j].t > lg[i].t
         /\ lg[j].t - lg[i].t < rlInterval

\* The state changes only to the input as it is, and only once the input has stayed
\* unchanged for the delay.
EmitsSettledInput ==
  deb'.debounced # deb.debounced =>
    /\ deb'.debounced = deb.value
    /\ deb'.value = deb.value
    /\ now - deb.since >= deb.delay

\* An input change leaves one timeout pending, the one for the new input.
ChangeCancels ==
  deb'.changes > deb.changes =>
    deb'.timers = {[v |-> deb'.value, due |-> now + deb.delay]}

\* C29: the debounced value changes only to an input that has stayed unchanged for
\* `delay`, an input change cancels the pending update, and once the input stops
\* changing the debounced value eventually equals it and stays so.
C29_Debounce ==
  /\ [][EmitsSettledInput /\ ChangeCancels]_vars
  /\ <>[](deb.debounced = deb.value)

\* The input went a, b, c and the state went from a to c at once.
C29_Witness ==
  /\ deb.changes = 2
  /\ deb.value = "c"
  /\ deb.debounced = "c"
  /\ deb.emits = 1

\* The way the task of source s failed: every attempt failed with a non-2xx status,
\* every attempt's fetch rejected, or the parse and traversal threw.
Exhausted(s, e) ==
  /\ task[s].thrown = e
  /\ Len(task[s].errs) = Retries
  /\ task[s].html = <<>>

\* C30: a source task never rejects: when all its attempts failed, or its document's
\* parse threw, it resolves, with a list; and no response to a request whose source
\* failed is a 500.
C30_TasksNeverReject ==
  /\ \A s \in Sources :
       /\ task[s].st # "rejected"
       /\ task[s].rank > 0 =>
            /\ task[s].st = "resolved"
            /\ DOMAIN task[s].products = 1..Len(task[s].products)
       /\ SourceFailed(s) => task[s].rank > 0 /\ Len(task[s].products) = 0
  /\ (\E s \in Sources : SourceFailed(s)) => status \notin {500}

\* A response sent after amazon's attempts all met a non-2xx status and flipkart's
\* parse threw.
C30_Witness ==
  /\ pc = "done"
  /\ Exhausted("amazon", "HTTP error! status: 503")
  /\ task["flipkart"].exc
  /\ \A s \in Sources : task[s].st = "resolved"
  /\ status = 404

\* One where every attempt's fetch rejected.
C30_WitnessNetwork ==
  /\ pc = "done"
  /\ Exhausted("flipkart", "fetch failed")
  /\ task["flipkart"].st = "resolved"
====
